---- MODULE Spec2Model ----
(***************************************************************************)
(* Token, fetch, cache and scheduling layer of the ODK Central dashboard:  *)
(*   src/app.py      interactive mode (Streamlit): get_odk_token,          *)
(*                   load_token, download_csv, load_data                   *)
(*   src/odk_csv.py  background mode: get_odk_token, download_csv,         *)
(*                   run_periodically, __main__                            *)
(* The remote API, the clock and the file system are the environment: a   *)
(* handler's inputs (HTTP responses, outcome of the disk write) are drawn  *)
(* with \E from the small sets below.                                      *)
(***************************************************************************)
EXTENDS Integers, Sequences, FiniteSets, TLC

VARIABLES
    now,        \* time.time(), in seconds
    tokenFile,  \* content of TOKEN_FILE (odk_token.json)
    artifact,   \* content of CSV_FILE (odk_submissions/{FORM_ID}_submissions.csv)
    cache,      \* the st.cache_data entry of load_data
    lastFetch,  \* time of the last download_csv call made by load_data, if any
    obs,        \* what the last handler call did (requests sent, result)
    sess,       \* interactive sessions running concurrently: position and locals
    bg          \* the background process: position and next_run of the job

vars == <<now, tokenFile, artifact, cache, lastFetch, obs, sess, bg>>

----------------------------------------------------------------------------
(* Program constants *)

TOKEN_VALIDITY == 3600
CACHE_TTL == 1800
SCHEDULE_MINUTES == 10
SLEEP_SECONDS == 60

(* Bounds of the model *)

Quantum == 900
MaxAdvance == 2
MaxTime == 4500
MaxBgTime == 1500
RecordChunks == 2
NumSessions == 2

----------------------------------------------------------------------------
(* Values *)

NoToken == "None"
FreshTokens == {"tok1", "tok2"}

\* CSV bodies as sequences of lines; <<>> is the empty body.
Bodies == {<<"a,b", "1,2">>, <<>>}
OldBody == <<"a,b", "0,0">>
ErrBody == <<"error">>

\* TOKEN_FILE: absent, unreadable, not valid JSON, or a JSON object that
\* may lack either key.
AbsentFile == [kind |-> "absent", hasToken |-> FALSE, hasExpiry |-> FALSE,
               token |-> NoToken, expiry |-> 0]
UnreadableFile == [AbsentFile EXCEPT !.kind = "unreadable"]
NotJsonFile == [AbsentFile EXCEPT !.kind = "notjson"]
Record(tok, exp) == [kind |-> "object", hasToken |-> TRUE, hasExpiry |-> TRUE,
                     token |-> tok, expiry |-> exp]
NoExpiryFile(tok) == [kind |-> "object", hasToken |-> TRUE, hasExpiry |-> FALSE,
                      token |-> tok, expiry |-> 0]
NoTokenFile(exp) == [kind |-> "object", hasToken |-> FALSE, hasExpiry |-> TRUE,
                     token |-> NoToken, expiry |-> exp]

\* What a process may find at start: the file outlives the process.
InitialTokenFiles ==
    {AbsentFile, UnreadableFile, NotJsonFile, NoExpiryFile("old")}
    \cup {NoTokenFile(e) : e \in {0, TOKEN_VALIDITY}}
    \cup {Record("old", e) : e \in {0, Quantum, TOKEN_VALIDITY}}

AbsentArtifact == [exists |-> FALSE, content |-> <<>>]
Artifact(b) == [exists |-> TRUE, content |-> b]
InitialArtifacts == {AbsentArtifact, Artifact(OldBody)}

\* POST {server}/v1/sessions: a network-level failure, or a response with a
\* status and a JSON body (an object that may hold "token", or another value).
SessionResponses ==
    {[err |-> FALSE, status |-> 200, shape |-> "object", token |-> k] :
        k \in FreshTokens \cup {NoToken}}
    \cup {[err |-> FALSE, status |-> 200, shape |-> "array", token |-> NoToken],
          [err |-> FALSE, status |-> 403, shape |-> "object", token |-> NoToken],
          [err |-> TRUE, status |-> 0, shape |-> "object", token |-> NoToken]}

\* GET .../submissions.csv
GetResponses ==
    {[err |-> FALSE, status |-> 200, body |-> b] : b \in Bodies}
    \cup {[err |-> FALSE, status |-> st, body |-> ErrBody] : st \in {401, 500}}
    \cup {[err |-> TRUE, status |-> 0, body |-> ErrBody]}

\* open(path, "wb") + f.write(content): succeeds, open fails, or the write
\* fails after open has truncated the file.
WriteOutcomes == {"ok", "open_fails", "write_fails"}

\* The inputs of one interactive download_csv call: s1 answers the session
\* request of load_token, g1 the first GET, s2 and g2 the forced refresh and
\* the retried GET, w is the outcome of the write. An input the call cannot
\* reach is fixed: nothing is retried unless g1 is a 401, no GET follows a
\* session request that raised, nothing is written after a failed GET.
DefaultSession == [err |-> TRUE, status |-> 0, shape |-> "object", token |-> NoToken]
DefaultGet == [err |-> TRUE, status |-> 0, body |-> ErrBody]
SessionRaises(s) == s.err \/ (s.status = 200 /\ s.shape # "object")
GetFails(g) == g.err \/ g.status >= 400
Scenarios ==
    {sc \in [s1 : SessionResponses, g1 : GetResponses, s2 : SessionResponses,
             g2 : GetResponses, w : WriteOutcomes] :
        /\ (sc.g1.err \/ sc.g1.status # 401)
              => sc.s2 = DefaultSession /\ sc.g2 = DefaultGet
        /\ SessionRaises(sc.s1) => sc.g1 = DefaultGet /\ sc.w = "ok"
        /\ SessionRaises(sc.s2) => sc.g2 = DefaultGet
        /\ (GetFails(sc.g1) /\ GetFails(sc.g2)) => sc.w = "ok"}

NoCache == [present |-> FALSE, value |-> "none", ts |-> 0]
NoObs == [op |-> "none"]

----------------------------------------------------------------------------
(* src/app.py *)

\* get_odk_token: the POST answered by s at time t, TOKEN_FILE holding tf.
GetOdkToken(tf, t, s) ==
    IF s.err
    THEN [ret |-> NoToken, file |-> tf, exc |-> "RequestException"]
    ELSE IF s.status = 200
    THEN IF s.shape # "object"
         THEN [ret |-> NoToken, file |-> tf, exc |-> "AttributeError"]
         ELSE [ret |-> s.token, file |-> Record(s.token, t + TOKEN_VALIDITY),
               exc |-> "none"]
    ELSE [ret |-> NoToken, file |-> tf, exc |-> "none"]

\* Mutants of TokenFresh: the comparison inverted; the boundary included.
TokenFreshInverted(tf, t) == t > (IF tf.hasExpiry THEN tf.expiry ELSE 0)
TokenFreshInclusive(tf, t) == t <= (IF tf.hasExpiry THEN tf.expiry ELSE 0)

\* time.time() < token_data.get("expiry", 0)
TokenFresh(tf, t) == t < (IF tf.hasExpiry THEN tf.expiry ELSE 0)

\* load_token: posts counts the session requests it sent.
LoadToken(tf, t, s) ==
    IF tf.kind = "absent"
    THEN GetOdkToken(tf, t, s) @@ [posts |-> 1]
    ELSE IF tf.kind = "unreadable"
    THEN [ret |-> NoToken, file |-> tf, exc |-> "PermissionError", posts |-> 0]
    ELSE IF tf.kind = "notjson"
    THEN [ret |-> NoToken, file |-> tf, exc |-> "JSONDecodeError", posts |-> 0]
    ELSE IF TokenFresh(tf, t)
    THEN IF tf.hasToken
         THEN [ret |-> tf.token, file |-> tf, exc |-> "none", posts |-> 0]
         ELSE [ret |-> NoToken, file |-> tf, exc |-> "KeyError", posts |-> 0]
    ELSE GetOdkToken(tf, t, s) @@ [posts |-> 1]

\* One export GET as it goes into the log of a call: the bearer it carried
\* (f"Bearer {token}" with token None is "Bearer None") and the answer.
GetEvent(bearer, g) ==
    [ev |-> "get", bearer |-> bearer, err |-> g.err, status |-> g.status,
     body |-> g.body]

\* An acquisition of a token: load_token or get_odk_token, the session
\* requests it sent, what it returned and what it raised.
AuthEvent(fn, r, n) ==
    [ev |-> fn, posts |-> n, ret |-> r.ret, exc |-> r.exc]

\* Mutant of RaiseForStatus: client errors pass.
RaiseForStatusServerOnly(g) == 500 <= g.status /\ g.status < 600

\* Mutant of Unauthorized: the wrong status triggers the retry.
UnauthorizedForbidden(g) == g.status = 403

\* response.status_code == 401
Unauthorized(g) == g.status = 401

\* response.raise_for_status() raises HTTPError for 4xx and 5xx.
RaiseForStatus(g) == 400 <= g.status /\ g.status < 600

\* The result of a download_csv call: the two files, the log of what it
\* did, the exception that left it ("none": it returned) and the st.* notice.
Done(file, art, log, exc, notice) ==
    [file |-> file, artifact |-> art, log |-> log, exc |-> exc,
     notice |-> notice]

\* with open(path, "wb") as f: f.write(content)
WriteFile(art, body, w) ==
    IF w = "ok" THEN Artifact(body)
    ELSE IF w = "write_fails" THEN Artifact(<<>>)
    ELSE art

\* download_csv, from raise_for_status on: g is the final response.
Finish(file, art, log, g, w) ==
    IF RaiseForStatus(g)
    THEN Done(file, art, log, "none", "error")
    ELSE LET log2 == log \o <<[ev |-> "write", body |-> g.body, outcome |-> w]>>
         IN  IF w = "ok"
             THEN Done(file, WriteFile(art, g.body, w), log2, "none", "success")
             ELSE Done(file, WriteFile(art, g.body, w), log2, "OSError", "none")

\* download_csv, the 401 branch: regenerate the token and retry the GET.
Retry(file, art, t, log, s2, g2, w) ==
    LET rf == GetOdkToken(file, t, s2)
        log2 == log \o <<AuthEvent("get_odk_token", rf, 1)>>
    IN  IF rf.exc = "RequestException"
        THEN Done(rf.file, art, log2, "none", "error")
        ELSE IF rf.exc # "none"
        THEN Done(rf.file, art, log2, rf.exc, "none")
        ELSE LET log3 == log2 \o <<GetEvent(rf.ret, g2)>>
             IN  IF g2.err
                 THEN Done(rf.file, art, log3, "none", "error")
                 ELSE Finish(rf.file, art, log3, g2, w)

\* download_csv: s1 answers the session request of load_token (if it sends
\* one), g1 the first GET, s2 and g2 the forced refresh and the retried GET,
\* w is the outcome of the write of CSV_FILE.
DownloadCsv(tf, art, t, s1, g1, s2, g2, w) ==
    LET lt == LoadToken(tf, t, s1)
        log0 == <<AuthEvent("load_token", lt, lt.posts)>>
    IN  IF lt.exc # "none"
        THEN Done(lt.file, art, log0, lt.exc, "none")
        ELSE LET log1 == log0 \o <<GetEvent(lt.ret, g1)>>
             IN  IF g1.err
                 THEN Done(lt.file, art, log1, "none", "error")
                 ELSE IF Unauthorized(g1)
                 THEN Retry(lt.file, art, t, log1, s2, g2, w)
                 ELSE Finish(lt.file, art, log1, g1, w)

\* pd.read_csv(CSV_FILE): an empty file raises EmptyDataError; otherwise the
\* first line names the columns and every further line is a row.
EmptyTable == [columns |-> "", nrows |-> 0]
ReadCsv(body) ==
    IF body = <<>>
    THEN [exc |-> "EmptyDataError", table |-> EmptyTable]
    ELSE [exc |-> "none",
          table |-> [columns |-> body[1], nrows |-> Len(body) - 1]]

\* load_data, the decorated function: download_csv, then the file if it
\* exists and parses, else an empty DataFrame.
LoadDataBody(tf, art, t, s1, g1, s2, g2, w) ==
    LET d == DownloadCsv(tf, art, t, s1, g1, s2, g2, w)
    IN  [file |-> d.file, artifact |-> d.artifact, exc |-> d.exc,
         value |-> IF d.exc # "none" THEN "none"
                   ELSE IF d.artifact.exists
                           /\ ReadCsv(d.artifact.content).exc = "none"
                   THEN ReadCsv(d.artifact.content).table
                   ELSE EmptyTable]

\* @st.cache_data(ttl=1800): the entry stored at ts answers calls until
\* ts + ttl.
CacheFresh(c, t) == c.present /\ t < c.ts + CACHE_TTL

----------------------------------------------------------------------------
(* src/odk_csv.py *)

\* get_odk_token: a network failure and a 4xx/5xx status are
\* RequestExceptions, caught; .get on a JSON body that is no object is not.
BgGetOdkToken(s) ==
    IF s.err \/ RaiseForStatus(s)
    THEN [ret |-> NoToken, exc |-> "none"]
    ELSE IF s.shape # "object"
    THEN [ret |-> NoToken, exc |-> "AttributeError"]
    ELSE [ret |-> s.token, exc |-> "none"]

\* download_csv: a fresh token on every call; it never touches TOKEN_FILE.
BgDownloadCsv(tf, art, s, g, w) ==
    LET tk == BgGetOdkToken(s)
        log0 == <<AuthEvent("get_odk_token", tk, 1)>>
    IN  IF tk.exc # "none"
        THEN Done(tf, art, log0, tk.exc, "none")
        ELSE IF tk.ret = NoToken
        THEN Done(tf, art, log0, "none", "skipped")
        ELSE LET log1 == log0 \o <<GetEvent(tk.ret, g)>>
                 log2 == log1 \o <<[ev |-> "write", body |-> g.body,
                                    outcome |-> w]>>
             IN  IF g.err \/ RaiseForStatus(g)
                 THEN Done(tf, art, log1, "none", "error")
                 ELSE IF w = "ok"
                 THEN Done(tf, WriteFile(art, g.body, w), log2, "none", "success")
                 ELSE Done(tf, WriteFile(art, g.body, w), log2, "OSError", "none")

----------------------------------------------------------------------------
(* The clock *)

NoSess == [pc |-> "none"]
NoBg == [pc |-> "none"]

\* The last call has returned and time passes (less than a quantum, or some
\* quanta) before the next one; obs holds a call only in the state it ends in.
Tick ==
    /\ \E k \in 0..MaxAdvance :
          /\ now + k * Quantum <= MaxTime
          /\ now' = now + k * Quantum
    /\ obs' = NoObs
    /\ UNCHANGED <<tokenFile, artifact, cache, lastFetch, sess, bg>>

----------------------------------------------------------------------------
(* SpecToken: load_token called on every token file, at every time *)

InitToken ==
    /\ now = 0
    /\ tokenFile \in InitialTokenFiles
    /\ artifact = AbsentArtifact
    /\ cache = NoCache
    /\ lastFetch = <<>>
    /\ obs = NoObs
    /\ sess = NoSess
    /\ bg = NoBg

\* One call of load_token; resp is the session response it consumed.
CallLoadToken ==
    \E s \in SessionResponses :
        LET r == LoadToken(tokenFile, now, s)
        IN  /\ obs = NoObs
            /\ tokenFile' = r.file
            /\ obs' = [op |-> "load_token", pre |-> tokenFile, t |-> now,
                       posts |-> r.posts, ret |-> r.ret, exc |-> r.exc,
                       resp |-> IF r.posts = 0 THEN <<>> ELSE <<s>>]
            /\ UNCHANGED <<now, artifact, cache, lastFetch, sess, bg>>

NextToken == CallLoadToken \/ Tick

SpecToken == InitToken /\ [][NextToken]_vars

\* A persisted token record: a JSON object with both keys.
IsRecord(tf) == tf.kind = "object" /\ tf.hasToken /\ tf.hasExpiry

\* C1: load_token on a record with expiry > now sends no session request,
\* returns the stored token and leaves the record as it was.
C1_FreshTokenReused ==
    (obs.op = "load_token" /\ IsRecord(obs.pre) /\ obs.pre.expiry > obs.t)
        => /\ obs.posts = 0
           /\ obs.exc = "none"
           /\ obs.ret = obs.pre.token
           /\ tokenFile = obs.pre

\* C1 witness: a token the program stored itself is reused at a later time.
C1_Witness ==
    /\ obs.op = "load_token"
    /\ IsRecord(obs.pre)
    /\ obs.pre.token \in FreshTokens
    /\ obs.pre.expiry > obs.t
    /\ obs.t > 0
    /\ obs.ret = obs.pre.token

\* The session response was a 200 whose JSON body is an object.
SessionOk(s) == ~s.err /\ s.status = 200 /\ s.shape = "object"

\* C2 as stated: load_token on a record with expiry <= now sends exactly one
\* session request and the record persisted afterwards is that call's result.
C2_Original ==
    (obs.op = "load_token" /\ IsRecord(obs.pre) /\ obs.pre.expiry <= obs.t)
        => /\ obs.posts = 1
           /\ tokenFile = Record(obs.resp[1].token, obs.t + TOKEN_VALIDITY)

\* C2 amended: exactly one session request; if it is answered 200 with a
\* JSON object the record persisted is {its token, now + 1 hour} and that
\* token is returned; otherwise the expired record stays as it was.
C2_ExpiredTokenRenewed ==
    (obs.op = "load_token" /\ IsRecord(obs.pre) /\ obs.pre.expiry <= obs.t)
        => /\ obs.posts = 1
           /\ IF SessionOk(obs.resp[1])
              THEN /\ tokenFile = Record(obs.resp[1].token, obs.t + TOKEN_VALIDITY)
                   /\ obs.ret = obs.resp[1].token
                   /\ obs.exc = "none"
              ELSE tokenFile = obs.pre

\* C2 witness: a record expiring exactly now is renewed.
C2_Witness ==
    /\ obs.op = "load_token"
    /\ IsRecord(obs.pre)
    /\ obs.pre.expiry = obs.t
    /\ obs.posts = 1
    /\ obs.ret \in FreshTokens
    /\ tokenFile = Record(obs.ret, obs.t + TOKEN_VALIDITY)

\* C8 as stated: on a token file that is absent, unreadable or malformed,
\* load_token raises nothing from reading it and goes on to authenticate.
C8_MalformedIsAbsent ==
    (obs.op = "load_token" /\ ~IsRecord(obs.pre))
        => /\ obs.exc \notin {"PermissionError", "JSONDecodeError", "KeyError"}
           /\ obs.posts = 1

----------------------------------------------------------------------------
(* Spec: the two fetchers, one call at a time *)

Init ==
    /\ now = 0
    /\ tokenFile \in InitialTokenFiles
    /\ artifact \in InitialArtifacts
    /\ cache = NoCache
    /\ lastFetch = <<>>
    /\ obs = NoObs
    /\ sess = NoSess
    /\ bg = NoBg

DownloadObs(mode, r) ==
    [op |-> "download_csv", mode |-> mode, t |-> now, preFile |-> tokenFile,
     preArtifact |-> artifact, log |-> r.log, exc |-> r.exc,
     notice |-> r.notice]

\* if st.button("Download Latest CSV"): download_csv()
ClickDownload ==
    \E sc \in Scenarios :
        LET r == DownloadCsv(tokenFile, artifact, now,
                             sc.s1, sc.g1, sc.s2, sc.g2, sc.w)
        IN  /\ obs = NoObs
            /\ tokenFile' = r.file
            /\ artifact' = r.artifact
            /\ obs' = DownloadObs("app", r)
            /\ UNCHANGED <<now, cache, lastFetch, sess, bg>>

\* One invocation of odk_csv.download_csv by the background process.
ScheduledDownload ==
    \E s \in SessionResponses, g \in GetResponses, w \in WriteOutcomes :
        LET r == BgDownloadCsv(tokenFile, artifact, s, g, w)
        IN  /\ obs = NoObs
            /\ tokenFile' = r.file
            /\ artifact' = r.artifact
            /\ obs' = DownloadObs("bg", r)
            /\ UNCHANGED <<now, cache, lastFetch, sess, bg>>

Next == ClickDownload \/ ScheduledDownload \/ Tick

Spec == Init /\ [][Next]_vars

IsAuth(e) == e.ev \in {"load_token", "get_odk_token"}
IsGet(e) == e.ev = "get"
IsWrite(e) == e.ev = "write"
Auths(log) == SelectSeq(log, IsAuth)
Gets(log) == SelectSeq(log, IsGet)
Writes(log) == SelectSeq(log, IsWrite)
RECURSIVE Posts(_)
Posts(log) ==
    IF log = <<>> THEN 0
    ELSE (IF IsAuth(Head(log)) THEN Head(log).posts ELSE 0) + Posts(Tail(log))

\* The export request got a response, and not an error status (4xx, 5xx).
Succeeded(e) == ~e.err /\ e.status < 400

\* C3: an interactive fetch whose first GET is answered 401 acquires a token
\* exactly twice (load_token, cached or not, then the forced get_odk_token),
\* retries the GET exactly once, with the regenerated token, unless the
\* regeneration raised; and when the retried GET succeeds the artifact is
\* written exactly once, with the body of the second GET.
C3_RetryOnceAfter401 ==
    (obs.op = "download_csv" /\ obs.mode = "app" /\ Gets(obs.log) # <<>>
        /\ ~Gets(obs.log)[1].err /\ Gets(obs.log)[1].status = 401)
        => LET gets == Gets(obs.log)
               auths == Auths(obs.log)
               writes == Writes(obs.log)
           IN  /\ Len(auths) = 2
               /\ auths[1].ev = "load_token"
               /\ auths[2].ev = "get_odk_token"
               /\ auths[1].posts = (IF IsRecord(obs.preFile)
                                       /\ obs.preFile.expiry > obs.t
                                    THEN 0 ELSE 1)
               /\ Posts(obs.log) = auths[1].posts + 1
               /\ Len(gets) = (IF auths[2].exc = "none" THEN 2 ELSE 1)
               /\ Len(gets) = 2 => gets[2].bearer = auths[2].ret
               /\ IF Len(gets) = 2 /\ Succeeded(gets[2])
                  THEN /\ Len(writes) = 1
                       /\ writes[1].body = gets[2].body
                       /\ writes[1].outcome = "ok"
                            => artifact = Artifact(gets[2].body)
                  ELSE writes = <<>>

\* C3 witness: a cached token is rejected, the retry succeeds and its body
\* replaces the previous artifact.
C3_Witness ==
    /\ obs.op = "download_csv" /\ obs.mode = "app"
    /\ Len(Gets(obs.log)) = 2
    /\ Gets(obs.log)[1].status = 401
    /\ Gets(obs.log)[2].status = 200
    /\ Auths(obs.log)[1].posts = 0
    /\ Posts(obs.log) = 1
    /\ obs.preArtifact = Artifact(OldBody)
    /\ artifact = Artifact(<<"a,b", "1,2">>)
    /\ obs.notice = "success"

\* C4: in both modes, when the last export GET of a fetch got no successful
\* response (401 twice, any other 4xx/5xx, no response at all), the fetch
\* fails, no write is attempted and the artifact is what it was.
C4_FailedFetchWritesNothing ==
    (obs.op = "download_csv" /\ Gets(obs.log) # <<>>
        /\ ~Succeeded(Gets(obs.log)[Len(Gets(obs.log))]))
        => /\ Writes(obs.log) = <<>>
           /\ artifact = obs.preArtifact
           /\ obs.notice # "success"

\* C4 witness: 401 on the first and on the retried GET, an artifact present.
C4_Witness ==
    /\ obs.op = "download_csv" /\ obs.mode = "app"
    /\ Len(Gets(obs.log)) = 2
    /\ Gets(obs.log)[1].status = 401
    /\ Gets(obs.log)[2].status = 401
    /\ obs.preArtifact = Artifact(OldBody)
    /\ artifact = Artifact(OldBody)
    /\ obs.notice = "error"

\* C10 as stated: in both modes every export GET carries a token (never
\* None), and once an acquisition has returned None the call sends no GET
\* and acquires no token again.
C10_NoGetWithoutToken ==
    obs.op = "download_csv"
        => \A i \in 1..Len(obs.log) :
              /\ IsGet(obs.log[i]) => obs.log[i].bearer # NoToken
              /\ (IsAuth(obs.log[i]) /\ obs.log[i].ret = NoToken)
                    => \A j \in (i + 1)..Len(obs.log) :
                          ~IsGet(obs.log[j]) /\ ~IsAuth(obs.log[j])

----------------------------------------------------------------------------
(* SpecLoad: the dashboard script calling load_data as time passes *)

\* The dashboard starts with no token file, a torn one or a valid record.
InitLoad ==
    /\ now = 0
    /\ tokenFile \in {AbsentFile, NotJsonFile, Record("old", TOKEN_VALIDITY)}
    /\ artifact \in InitialArtifacts
    /\ cache = NoCache
    /\ lastFetch = <<>>
    /\ obs = NoObs
    /\ sess = NoSess
    /\ bg = NoBg

\* data = load_data(): the memoized value inside the freshness window, else
\* the function runs; a call that raises stores nothing.
LoadData ==
    /\ obs = NoObs
    /\ IF CacheFresh(cache, now)
       THEN /\ obs' = [op |-> "load_data", t |-> now, fetched |-> FALSE,
                       exc |-> "none", value |-> cache.value,
                       prevFetch |-> lastFetch]
            /\ UNCHANGED <<tokenFile, artifact, cache, lastFetch>>
       ELSE \E sc \in Scenarios :
                LET r == LoadDataBody(tokenFile, artifact, now,
                                      sc.s1, sc.g1, sc.s2, sc.g2, sc.w)
                IN  /\ tokenFile' = r.file
                    /\ artifact' = r.artifact
                    /\ cache' = IF r.exc = "none"
                                THEN [present |-> TRUE, value |-> r.value,
                                      ts |-> now]
                                ELSE cache
                    /\ lastFetch' = <<now>>
                    /\ obs' = [op |-> "load_data", t |-> now,
                               fetched |-> TRUE, exc |-> r.exc,
                               value |-> r.value, prevFetch |-> lastFetch]
    /\ UNCHANGED <<now, sess, bg>>

NextLoad == LoadData \/ Tick

SpecLoad == InitLoad /\ [][NextLoad]_vars

\* C6 as stated: two calls of load_data less than 30 minutes apart issue at
\* most one fetch, so two fetches by load_data are at least the window apart.
C6_OneFetchPerWindow ==
    (obs.op = "load_data" /\ obs.fetched /\ obs.prevFetch # <<>>)
        => obs.t - obs.prevFetch[1] >= CACHE_TTL

\* C7 as stated: load_data never raises, and returns the empty table when
\* the artifact is absent or does not parse after the fetch attempt.
C7_LoadNeverFails ==
    (obs.op = "load_data" /\ obs.fetched)
        => /\ obs.exc = "none"
           /\ (~artifact.exists \/ ReadCsv(artifact.content).exc # "none")
                => obs.value = EmptyTable

----------------------------------------------------------------------------
(* SpecBg: python odk_csv.py, the background process *)

SCHEDULE_INTERVAL == SCHEDULE_MINUTES * 60

InitBg ==
    /\ now = 0
    /\ tokenFile = AbsentFile
    /\ artifact \in InitialArtifacts
    /\ cache = NoCache
    /\ lastFetch = <<>>
    /\ obs = NoObs
    /\ sess = NoSess
    /\ bg = [pc |-> "main", next_run |-> 0]

\* An invocation of download_csv by the process at position pc: an exception
\* that leaves download_csv is caught nowhere and ends the process.
BgInvoke(next) ==
    \E s \in SessionResponses, g \in GetResponses, w \in WriteOutcomes :
        LET r == BgDownloadCsv(tokenFile, artifact, s, g, w)
        IN  /\ artifact' = r.artifact
            /\ obs' = DownloadObs("bg", r)
            /\ bg' = IF r.exc # "none"
                     THEN [bg EXCEPT !.pc = "crashed"]
                     ELSE next

\* __main__: download_csv() run immediately, then run_periodically()
\* registers the job: schedule.every(10).minutes.do(download_csv).
BgMain ==
    /\ bg.pc = "main"
    /\ BgInvoke([pc |-> "loop", next_run |-> now + SCHEDULE_INTERVAL])
    /\ UNCHANGED <<now, tokenFile, cache, lastFetch, sess>>

\* run_periodically, one turn of the loop with the job due:
\* schedule.run_pending() runs it and sets its next run.
BgRunPending ==
    /\ bg.pc = "loop"
    /\ now >= bg.next_run
    /\ BgInvoke([pc |-> "sleep", next_run |-> now + SCHEDULE_INTERVAL])
    /\ UNCHANGED <<now, tokenFile, cache, lastFetch, sess>>

\* run_periodically, one turn of the loop with no job due.
BgNothingPending ==
    /\ bg.pc = "loop"
    /\ now < bg.next_run
    /\ bg' = [bg EXCEPT !.pc = "sleep"]
    /\ UNCHANGED <<now, tokenFile, artifact, cache, lastFetch, obs, sess>>

\* time.sleep(60)
BgSleep ==
    /\ bg.pc = "sleep"
    /\ now + SLEEP_SECONDS <= MaxBgTime
    /\ now' = now + SLEEP_SECONDS
    /\ bg' = [bg EXCEPT !.pc = "loop"]
    /\ obs' = NoObs
    /\ UNCHANGED <<tokenFile, artifact, cache, lastFetch, sess>>

NextBg == BgMain \/ BgRunPending \/ BgNothingPending \/ BgSleep

SpecBg == InitBg /\ [][NextBg]_vars

\* C5 as stated: no failure of a fetch invocation, the immediate one
\* included, ends the scheduling loop.
C5_LoopSurvivesFailures == bg.pc # "crashed"

----------------------------------------------------------------------------
(* SpecConc: interactive sessions running load_token and get_odk_token     *)
(* step by step on the one TOKEN_FILE. Here tokenFile is the file as the   *)
(* file system holds it: the chunks written so far, each a piece of the    *)
(* record it was cut from, Hole where nothing was written.                 *)

Sessions == 1..NumSessions
Hole == [AbsentFile EXCEPT !.kind = "hole"]
Whole(rec) == [i \in 1..RecordChunks |-> rec]
OnDisk(chunks) == [exists |-> TRUE, chunks |-> chunks]
NotOnDisk == [exists |-> FALSE, chunks |-> <<>>]

\* json.load of what was read: the record if every chunk of one record is
\* there, else not valid JSON.
Assemble(chunks) ==
    IF Len(chunks) = RecordChunks
       /\ chunks[1] # Hole
       /\ \A i \in 1..RecordChunks : chunks[i] = chunks[1]
    THEN chunks[1]
    ELSE NotJsonFile

\* f.write of chunk i of rec at its offset in a file holding chunks.
WriteChunk(chunks, i, rec) ==
    [j \in 1..(IF Len(chunks) > i THEN Len(chunks) ELSE i) |->
        IF j = i THEN rec
        ELSE IF j <= Len(chunks) THEN chunks[j] ELSE Hole]

Idle == [pc |-> "idle", read |-> FALSE, seen |-> <<>>, rec |-> AbsentFile,
         written |-> 0]

InitConc ==
    /\ now = 0
    /\ tokenFile \in {NotOnDisk, OnDisk(Whole(Record("old", 0))),
                      OnDisk(Whole(Record("old", TOKEN_VALIDITY)))}
    /\ artifact = AbsentArtifact
    /\ cache = NoCache
    /\ lastFetch = <<>>
    /\ obs = NoObs
    /\ sess = [i \in Sessions |-> Idle]
    /\ bg = NoBg

Goto(i, pc) == sess' = [sess EXCEPT ![i].pc = pc]

\* load_token: if os.path.exists(TOKEN_FILE)
Exists(i) ==
    /\ sess[i].pc = "idle"
    /\ Goto(i, IF tokenFile.exists THEN "read" ELSE "post")
    /\ UNCHANGED <<now, tokenFile, artifact, cache, lastFetch, obs, bg>>

\* load_token: open, json.load, the expiry test and the return.
Read(i) ==
    /\ sess[i].pc = "read"
    /\ LET r == LoadToken(Assemble(tokenFile.chunks), now, DefaultSession)
       IN  sess' = [sess EXCEPT ![i].read = TRUE,
                                ![i].seen = tokenFile.chunks,
                                ![i].pc = IF r.posts = 1 THEN "post"
                                          ELSE IF r.exc # "none" THEN "raised"
                                          ELSE "returned"]
    /\ UNCHANGED <<now, tokenFile, artifact, cache, lastFetch, obs, bg>>

\* get_odk_token: the session request and what follows it up to the open.
Post(i) ==
    /\ sess[i].pc = "post"
    /\ \E s \in SessionResponses :
          LET r == GetOdkToken(AbsentFile, now, s)
          IN  sess' = [sess EXCEPT ![i].rec = r.file,
                                   ![i].pc = IF r.exc # "none" THEN "raised"
                                             ELSE IF r.file = AbsentFile
                                             THEN "returned"
                                             ELSE "open"]
    /\ UNCHANGED <<now, tokenFile, artifact, cache, lastFetch, obs, bg>>

\* get_odk_token: open(TOKEN_FILE, "w") creates or truncates the file.
Open(i) ==
    /\ sess[i].pc = "open"
    /\ tokenFile' = OnDisk(<<>>)
    /\ sess' = [sess EXCEPT ![i].pc = "dump", ![i].written = 0]
    /\ UNCHANGED <<now, artifact, cache, lastFetch, obs, bg>>

\* get_odk_token: json.dump, one chunk reaching the file.
Dump(i) ==
    /\ sess[i].pc = "dump"
    /\ sess[i].written < RecordChunks
    /\ tokenFile' = OnDisk(WriteChunk(tokenFile.chunks, sess[i].written + 1,
                                      sess[i].rec))
    /\ sess' = [sess EXCEPT ![i].written = @ + 1]
    /\ UNCHANGED <<now, artifact, cache, lastFetch, obs, bg>>

\* get_odk_token: the file is closed and the token returned.
Close(i) ==
    /\ sess[i].pc = "dump"
    /\ sess[i].written = RecordChunks
    /\ Goto(i, "returned")
    /\ UNCHANGED <<now, tokenFile, artifact, cache, lastFetch, obs, bg>>

\* The script of the session runs again.
Rerun(i) ==
    /\ sess[i].pc \in {"returned", "raised"}
    /\ sess' = [sess EXCEPT ![i] = Idle]
    /\ UNCHANGED <<now, tokenFile, artifact, cache, lastFetch, obs, bg>>

NextConc ==
    \E i \in Sessions :
        Exists(i) \/ Read(i) \/ Post(i) \/ Open(i) \/ Dump(i) \/ Close(i)
            \/ Rerun(i)

SpecConc == InitConc /\ [][NextConc]_vars

\* C9 as stated: whatever a session reads from the token file is a complete
\* record, the previous one or the new one.
C9_NoTornRead ==
    \A i \in Sessions :
        sess[i].read => Assemble(sess[i].seen) # NotJsonFile

====
